---- MODULE Spec2Model ----
(***************************************************************************)
(* Model of metrics.py of urban-sound-tagging-baseline: the confusion      *)
(* counters (confusion_matrix_fine, confusion_matrix_coarse), the          *)
(* threshold sweep (evaluate) and the curve aggregators                    *)
(* (micro_averaged_auprc, macro_averaged_auprc).                           *)
(*                                                                         *)
(* Every function of the module is one action: it draws its arguments from *)
(* bounded sets and leaves them, with what the call returns or raises, in  *)
(* the state.  Booleans are TRUE/FALSE, arrays are sequences (1-based),    *)
(* a matrix is a sequence of rows, floats are exact rationals extended     *)
(* with inf and nan, scores and thresholds are integers in thousandths.    *)
(***************************************************************************)
EXTENDS Integers, Sequences, FiniteSets, TLC

VARIABLES fn, Y_true, Y_pred, is_true_incomplete, is_pred_incomplete,
          y_true, y_pred, df_dict, return_df, coarse_ids, mode, pred_df,
          gt_csv, ret

vars == <<fn, Y_true, Y_pred, is_true_incomplete, is_pred_incomplete,
          y_true, y_pred, df_dict, return_df, coarse_ids, mode, pred_df,
          gt_csv, ret>>

(***************************************************************************)
(* Bounds of the model.                                                    *)
(***************************************************************************)
\* samples of one call
MaxN == 2
\* complete fine tags of one coarse category
MaxK == 2
\* entries of one matrix or table (rows times columns)
MaxCells == 4
\* coarse categories
MaxCat == 2
\* rows of all the curves of one dictionary together
MaxRowsTotal == 2
\* TP + FP + FN of one row of a curve handed to an aggregator
MaxCount == 2

\* min_threshold = 0.01, in thousandths
MinThreshold == 10
\* the predicted scores drawn: below, at and above min_threshold
ScoreValues == {5, MinThreshold, 500}

(***************************************************************************)
(* Sequences.                                                              *)
(***************************************************************************)
RECURSIVE SumSeq(_)
SumSeq(s) == IF s = <<>> THEN 0 ELSE Head(s) + SumSeq(Tail(s))

BoolInt(b) == IF b THEN 1 ELSE 0

\* the vectors of n Booleans
BoolVec(n) == [1..n -> BOOLEAN]
\* the n x k Boolean matrices
BoolMat(n, k) == [1..n -> [1..k -> BOOLEAN]]

(***************************************************************************)
(* confusion_matrix_fine                                                   *)
(***************************************************************************)
\* np.logical_not(v)
LogicalNot(v) == [i \in 1..Len(v) |-> ~v[i]]

\* np.tile(v[:, np.newaxis], (1, k)): the column v repeated k times
Tile(v, k) == [n \in 1..Len(v) |-> [j \in 1..k |-> v[n]]]

\* np.logical_not(M) of a matrix
LogicalNotMat(M) == [n \in 1..Len(M) |-> [j \in 1..Len(M[n]) |-> ~M[n][j]]]

\* np.logical_and.reduce((A, B, C)): the element-wise conjunction
LogicalAndReduce3(A, B, C) ==
    [n \in 1..Len(A) |-> [j \in 1..Len(A[n]) |-> A[n][j] /\ B[n][j] /\ C[n][j]]]

\* np.logical_or.reduce(M, axis=1): per row, whether any entry holds
LogicalOrReduceRows(M) == [n \in 1..Len(M) |-> \E j \in 1..Len(M[n]) : M[n][j]]

\* numpy's broadcasting of two vectors: equal lengths, or one of them of
\* length 1, which is then repeated (to length 0 beside an empty vector)
Broadcastable(u, v) == Len(u) = Len(v) \/ Len(u) = 1 \/ Len(v) = 1
BroadcastLen(u, v) == IF Len(u) = 1 THEN Len(v) ELSE Len(u)
At(u, n) == IF Len(u) = 1 THEN u[1] ELSE u[n]

\* np.logical_or(u, v), np.logical_and(u, v) of two broadcastable vectors
LogicalOr(u, v) == [n \in 1..BroadcastLen(u, v) |-> At(u, n) \/ At(v, n)]
LogicalAnd(u, v) == [n \in 1..BroadcastLen(u, v) |-> At(u, n) /\ At(v, n)]

\* np.logical_and.reduce takes its tuple of matrices as one array: the
\* three must have one shape (no broadcasting), or numpy raises ValueError
SameShape(A, B, C) ==
    /\ Len(A) = Len(B) /\ Len(B) = Len(C)
    /\ \A n \in 1..Len(A) : Len(A[n]) = Len(B[n]) /\ Len(B[n]) = Len(C[n])

\* np.sum of a Boolean vector and of a Boolean matrix
SumVec(v) == SumSeq([n \in 1..Len(v) |-> BoolInt(v[n])])
SumMat(M) == SumSeq([n \in 1..Len(M) |-> SumVec(M[n])])

\* PART I
is_true_complete(Yp, ti) == Tile(LogicalNot(ti), IF Yp = <<>> THEN 0 ELSE Len(Yp[1]))
is_TP_complete(Yt, Yp, ti) == LogicalAndReduce3(Yt, Yp, is_true_complete(Yp, ti))
is_FP_complete(Yt, Yp, ti) ==
    LogicalAndReduce3(LogicalNotMat(Yt), Yp, is_true_complete(Yp, ti))
is_FN_complete(Yt, Yp, ti) ==
    LogicalAndReduce3(Yt, LogicalNotMat(Yp), is_true_complete(Yp, ti))

\* PART II
y_pred_coarsened(Yp, pi) == LogicalOr(LogicalOrReduceRows(Yp), pi)
is_TP_incomplete(Yp, ti, pi) == LogicalAnd(ti, y_pred_coarsened(Yp, pi))
\* (is_FP_incomplete left out of the count: no sample is a false alarm)
IsFPIncompleteDropped(ti, pi) == [n \in 1..Len(ti) |-> FALSE]
is_FP_incomplete(ti, pi) == LogicalAnd(LogicalNot(ti), pi)
is_FN_incomplete(Yp, ti, pi) == LogicalAnd(ti, LogicalNot(y_pred_coarsened(Yp, pi)))

\* PART III, reached when PART I and PART II raised nothing: line 95 raises
\* ValueError unless Y_true, Y_pred and is_true_complete have one shape,
\* line 127 unless the row count and is_pred_incomplete broadcast (after
\* which lines 136-154 broadcast too)
confusion_matrix_fine(Yt, Yp, ti, pi) ==
    IF ~SameShape(Yt, Yp, is_true_complete(Yp, ti))
    THEN [kind |-> "error", exc |-> "ValueError", line |-> 95,
          TP |-> 0, FP |-> 0, FN |-> 0]
    ELSE IF ~Broadcastable(LogicalOrReduceRows(Yp), pi)
    THEN [kind |-> "error", exc |-> "ValueError", line |-> 127,
          TP |-> 0, FP |-> 0, FN |-> 0]
    ELSE
    [kind |-> "ok", exc |-> "", line |-> 175,
     TP |-> SumMat(is_TP_complete(Yt, Yp, ti)) + SumVec(is_TP_incomplete(Yp, ti, pi)),
     FP |-> SumMat(is_FP_complete(Yt, Yp, ti)) + SumVec(is_FP_incomplete(ti, pi)),
     FN |-> SumMat(is_FN_complete(Yt, Yp, ti)) + SumVec(is_FN_incomplete(Yp, ti, pi))]

(***************************************************************************)
(* confusion_matrix_coarse                                                 *)
(***************************************************************************)
\* sklearn's unique_labels(y_true, y_pred): the sorted labels that occur
UniqueLabels(yt, yp) ==
    LET occ == {yt[n] : n \in 1..Len(yt)} \cup {yp[n] : n \in 1..Len(yp)}
    IN  (IF FALSE \in occ THEN <<FALSE>> ELSE <<>>) \o
        (IF TRUE \in occ THEN <<TRUE>> ELSE <<>>)

\* sklearn's confusion_matrix(y_true, y_pred): one row and one column per
\* label that occurs; cm[i][j] counts the samples of true label i
\* predicted as label j (with no sample there is no label: an empty matrix,
\* or a ValueError of sklearn's own: an error either way)
confusion_matrix(yt, yp) ==
    LET labels == UniqueLabels(yt, yp)
    IN  [i \in 1..Len(labels) |-> [j \in 1..Len(labels) |->
            Cardinality({n \in 1..Len(yt) : yt[n] = labels[i] /\ yp[n] = labels[j]})]]

\* cm[i, j] with 0-based i, j: inside the matrix, or an IndexError
InBounds(cm, i, j) == i + 1 <= Len(cm) /\ j + 1 <= Len(cm)

confusion_matrix_coarse(yt, yp) ==
    LET cm == confusion_matrix(yt, yp)
    IN  IF InBounds(cm, 0, 1) /\ InBounds(cm, 1, 0) /\ InBounds(cm, 1, 1)
        THEN [kind |-> "ok", TP |-> cm[2][2], FP |-> cm[1][2], FN |-> cm[2][1]]
        ELSE [kind |-> "error", exc |-> "IndexError", TP |-> 0, FP |-> 0, FN |-> 0]

(***************************************************************************)
(* Floats: exact rationals n/d (d > 0, in lowest terms), inf and nan.      *)
(***************************************************************************)
Abs(a) == IF a < 0 THEN -a ELSE a

RECURSIVE GCD(_, _)
GCD(a, b) == IF b = 0 THEN a ELSE GCD(b, a % b)

Num(n, d) ==
    LET g == GCD(Abs(n), d)
    IN  [k |-> "num", n |-> n \div g, d |-> d \div g]
Inf == [k |-> "inf", n |-> 1, d |-> 1]
NaN == [k |-> "nan", n |-> 0, d |-> 1]
Zero == Num(0, 1)
One == Num(1, 1)
\* mu = 0.5
Mu == Num(1, 2)

IsNum(x) == x.k = "num"
FLe(x, y) == x.n * y.d <= y.n * x.d
FLt(x, y) == x.n * y.d < y.n * x.d

\* x + y
FAdd(x, y) ==
    IF x.k = "nan" \/ y.k = "nan" THEN NaN
    ELSE IF x.k = "inf" \/ y.k = "inf" THEN Inf
    ELSE Num(x.n * y.d + y.n * x.d, x.d * y.d)

\* x - y and x * y of finite values
FSub(x, y) == Num(x.n * y.d - y.n * x.d, x.d * y.d)
FMul(x, y) == Num(x.n * y.n, x.d * y.d)

\* x / y of non-negative values, as numpy divides floats: x/0 is inf,
\* 0/0 is nan, x/inf is 0
FDiv(x, y) ==
    IF x.k = "nan" \/ y.k = "nan" THEN NaN
    ELSE IF x.k = "inf" THEN (IF y.k = "inf" THEN NaN ELSE Inf)
    ELSE IF y.k = "inf" THEN Zero
    ELSE IF y.n = 0 THEN (IF x.n = 0 THEN NaN ELSE Inf)
    ELSE Num(x.n * y.d, x.d * y.n)

\* np.maximum(x, y) of finite values
Maximum(x, y) == IF FLe(x, y) THEN y ELSE x

(***************************************************************************)
(* The precision, recall and F columns of a curve table.                   *)
(***************************************************************************)
\* (the precision without its floor mu: TPs / (TPs + FPs))
PrecisionNoFloor(TP, FP) == FDiv(Num(TP, 1), Num(TP + FP, 1))
\* eval_df["P"] = TPs / np.maximum(TPs + FPs, 0.5)
Precision(TP, FP) == FDiv(Num(TP, 1), Maximum(Num(TP + FP, 1), Mu))

\* eval_df["R"] = TPs / np.maximum(TPs + FNs, mu)
Recall(TP, FN) == FDiv(Num(TP, 1), Maximum(Num(TP + FN, 1), Mu))

\* eval_df["F"] = 1 / (1/eval_df["P"] + 1/eval_df["R"])
FScore(P, R) == FDiv(One, FAdd(FDiv(One, P), FDiv(One, R)))

\* pd.DataFrame({"threshold": ..., "TP": ..., "FP": ..., "FN": ...}) with the
\* columns P, R and F added: a table is a record of columns
EvalDf(thresholds, TPs, FPs, FNs) ==
    LET idx == 1..Len(thresholds)
        P == [i \in idx |-> Precision(TPs[i], FPs[i])]
        R == [i \in idx |-> Recall(TPs[i], FNs[i])]
    IN  [threshold |-> thresholds, TP |-> TPs, FP |-> FPs, FN |-> FNs,
         P |-> P, R |-> R, F |-> [i \in idx |-> FScore(P[i], R[i])]]

(***************************************************************************)
(* Area under a curve.                                                     *)
(***************************************************************************)
\* np.trapz(y, x)
RECURSIVE Trapz(_, _)
Trapz(y, x) ==
    IF Len(x) < 2 THEN Zero
    ELSE FAdd(FMul(FMul(FAdd(y[1], y[2]), Mu), FSub(x[2], x[1])),
              Trapz(Tail(y), Tail(x)))

\* sklearn's auc(x, y): x must be monotonic; a decreasing x negates the sum
auc(x, y) ==
    LET steps == 1..(Len(x) - 1)
        falls == \E i \in steps : FLt(x[i + 1], x[i])
        never_rises == \A i \in steps : FLe(x[i + 1], x[i])
    IN  IF Len(x) < 2 THEN [kind |-> "error", exc |-> "ValueError", v |-> NaN]
        ELSE IF falls /\ ~never_rises
             THEN [kind |-> "error", exc |-> "ValueError", v |-> NaN]
        ELSE IF falls THEN [kind |-> "ok", v |-> FSub(Zero, Trapz(y, x))]
        ELSE [kind |-> "ok", v |-> Trapz(y, x)]

\* np.array([1.0] + list(df["R"]) + [0.0]) and
\* np.array([0.0] + list(df["P"]) + [1.0])
ExtendRecalls(df) == <<One>> \o df.R \o <<Zero>>
ExtendPrecisions(df) == <<Zero>> \o df.P \o <<One>>

\* (the areas summed and not divided by their number)
MeanAsTotal(a) ==
    LET RECURSIVE Total(_)
        Total(s) == IF s = <<>> THEN Zero ELSE FAdd(Head(s), Total(Tail(s)))
    IN  Total(a)

\* np.mean(a): nan (and a warning) for an empty list
Mean(a) ==
    LET RECURSIVE Total(_)
        Total(s) == IF s = <<>> THEN Zero ELSE FAdd(Head(s), Total(Tail(s)))
    IN  FDiv(Total(a), Num(Len(a), 1))

(***************************************************************************)
(* macro_averaged_auprc                                                    *)
(***************************************************************************)
\* the loop over df_dict.keys(): auprcs after the categories 1..c, or the
\* ValueError auc raised on the way
RECURSIVE MacroLoop(_, _)
MacroLoop(d, c) ==
    IF c = 0 THEN [kind |-> "ok", auprcs |-> <<>>]
    ELSE LET before == MacroLoop(d, c - 1)
             a == auc(ExtendRecalls(d[c]), ExtendPrecisions(d[c]))
         IN  IF before.kind = "error" THEN before
             ELSE IF a.kind = "error"
                  THEN [kind |-> "error", exc |-> a.exc, auprcs |-> before.auprcs]
             ELSE [kind |-> "ok", auprcs |-> Append(before.auprcs, a.v)]

macro_averaged_auprc(d) ==
    LET loop == MacroLoop(d, Len(d))
    IN  IF loop.kind = "error"
        THEN [kind |-> "error", exc |-> loop.exc, auprc |-> NaN]
        ELSE [kind |-> "ok", exc |-> "", auprc |-> Mean(loop.auprcs)]

(***************************************************************************)
(* micro_averaged_auprc                                                    *)
(***************************************************************************)
\* np.unique(x["threshold"] for x in df_dict.values()): the argument is a
\* generator, which numpy wraps whole as one object: the result is an array
\* of one element, the generator itself, whatever df_dict holds
MicroThresholds(d) == <<"generator">>

\* df_dict[coarse_id][df_dict[coarse_id] > threshold].iloc[-1]: threshold
\* is that generator, and pandas refuses to compare a table with it (a
\* ValueError, a TypeError in older versions)
LastRowAbove(df, threshold) ==
    [kind |-> "error", exc |-> "ValueError", TP |-> 0, FP |-> 0, FN |-> 0]

\* the loop over the categories 1..c at one threshold: global_TP, global_FP
\* and global_FN
RECURSIVE MicroGlobal(_, _, _)
MicroGlobal(d, threshold, c) ==
    IF c = 0 THEN [kind |-> "ok", exc |-> "", TP |-> 0, FP |-> 0, FN |-> 0]
    ELSE LET before == MicroGlobal(d, threshold, c - 1)
             row == LastRowAbove(d[c], threshold)
         IN  IF before.kind = "error" THEN before
             ELSE IF row.kind = "error" THEN row
             ELSE [kind |-> "ok", exc |-> "", TP |-> before.TP + row.TP,
                   FP |-> before.FP + row.FP, FN |-> before.FN + row.FN]

\* TPs, FPs, FNs = (np.zeros((n_thresholds,)),) * 3 makes the three names one
\* array; TPs[i] = global_TP; FPs[i] = global_FP; FNs[i] = global_FN write
\* that one array three times, the last write staying
StoreCounts(buffer, i, g) ==
    LET afterTP == [buffer EXCEPT ![i] = g.TP]
        afterFP == [afterTP EXCEPT ![i] = g.FP]
    IN  [afterFP EXCEPT ![i] = g.FN]

\* the loop over the thresholds 1..i: the shared array, or the error raised
RECURSIVE MicroLoop(_, _, _)
MicroLoop(d, thresholds, i) ==
    IF i = 0 THEN [kind |-> "ok", exc |-> "", buffer |-> [j \in 1..Len(thresholds) |-> 0]]
    ELSE LET before == MicroLoop(d, thresholds, i - 1)
             g == MicroGlobal(d, thresholds[i], Len(d))
         IN  IF before.kind = "error" THEN before
             ELSE IF g.kind = "error"
                  THEN [kind |-> "error", exc |-> g.exc, buffer |-> before.buffer]
             ELSE [kind |-> "ok", exc |-> "", buffer |-> StoreCounts(before.buffer, i, g)]

\* eval_df of micro_averaged_auprc before its F column is added
MicroDf(thresholds, TPs, FPs, FNs) ==
    LET idx == 1..Len(thresholds)
    IN  [threshold |-> thresholds, TP |-> TPs, FP |-> FPs, FN |-> FNs,
         P |-> [i \in idx |-> Precision(TPs[i], FPs[i])],
         R |-> [i \in idx |-> Recall(TPs[i], FNs[i])]]

\* the F column added to eval_df
WithF(df) == [threshold |-> df.threshold, TP |-> df.TP, FP |-> df.FP, FN |-> df.FN,
              P |-> df.P, R |-> df.R,
              F |-> [i \in 1..Len(df.P) |-> FScore(df.P[i], df.R[i])]]

NoDf == [threshold |-> <<>>, TP |-> <<>>, FP |-> <<>>, FN |-> <<>>,
         P |-> <<>>, R |-> <<>>, F |-> <<>>]

micro_averaged_auprc(d, rdf) ==
    LET thresholds == MicroThresholds(d)
        loop == MicroLoop(d, thresholds, Len(thresholds))
        \* TPs, FPs and FNs are the one shared array
        eval_df == MicroDf(thresholds, loop.buffer, loop.buffer, loop.buffer)
        area == auc(ExtendRecalls(eval_df), ExtendPrecisions(eval_df))
    IN  IF loop.kind = "error"
        THEN [kind |-> "error", exc |-> loop.exc, auprc |-> NaN,
              has_df |-> FALSE, eval_df |-> NoDf]
        ELSE IF area.kind = "error"
        THEN [kind |-> "error", exc |-> area.exc, auprc |-> NaN,
              has_df |-> FALSE, eval_df |-> NoDf]
        ELSE IF ~rdf
        THEN [kind |-> "ok", exc |-> "", auprc |-> area.v,
              has_df |-> TRUE, eval_df |-> WithF(eval_df)]
        ELSE [kind |-> "ok", exc |-> "", auprc |-> area.v,
              has_df |-> FALSE, eval_df |-> NoDf]

(***************************************************************************)
(* evaluate                                                                *)
(***************************************************************************)
Digit(n) == CASE n = 0 -> "0" [] n = 1 -> "1" [] n = 2 -> "2" [] n = 3 -> "3"
              [] n = 4 -> "4" [] n = 5 -> "5" [] n = 6 -> "6" [] n = 7 -> "7"
              [] n = 8 -> "8" [] n = 9 -> "9"

\* str(n): a string is the sequence of its characters
RECURSIVE Str(_)
Str(n) == IF n < 10 THEN <<Digit(n)>> ELSE Str(n \div 10) \o <<Digit(n % 10)>>

\* column.startswith(prefix) and column.endswith("X")
StartsWith(column, prefix) ==
    Len(prefix) <= Len(column) /\ SubSeq(column, 1, Len(prefix)) = prefix
EndsWithX(column) == column # <<>> /\ column[Len(column)] = "X"

\* the mixed keys of a coarse category: its fine tag c-1 and its incomplete
\* tag c-X
FineTag(c) == Str(c) \o <<"-", "1">>
IncompleteTag(c) == Str(c) \o <<"-", "X">>

\* the columns of the table parse_fine_prediction returns: the mixed keys,
\* then audio_filename
RECURSIVE FineColumns(_)
FineColumns(ids) ==
    IF ids = <<>> THEN <<<<"audio_filename">>>>
    ELSE <<FineTag(Head(ids)), IncompleteTag(Head(ids))>> \o FineColumns(Tail(ids))

RECURSIVE SelectSeq2(_, _, _)
SelectSeq2(s, prefix, i) ==
    IF i > Len(s) THEN <<>>
    ELSE (IF StartsWith(s[i], prefix) /\ ~EndsWithX(s[i]) THEN <<s[i]>> ELSE <<>>)
         \o SelectSeq2(s, prefix, i + 1)

\* columns = [column for column in pred_df.columns
\*     if column.startswith(str(coarse_id)) and not column.endswith("X")]
\* (columns.sort() keeps the order: the table's mixed keys are in order)
Columns(pdf, coarse_id) == SelectSeq2(pdf.columns, Str(coarse_id), 1)

\* restricted_pred_df = pred_df[columns]
Restrict(pdf, columns) ==
    [columns |-> columns,
     values |-> [i \in 1..Len(columns) |-> pdf.values[columns[i]]]]

\* evaluate with min_threshold as written on line 216.  In coarse mode
\* parse_coarse_prediction raises: joining an integer coarse id into a tag
\* (a TypeError), or, the taxonomy empty, returning by coarse_columns, which
\* is no name of the module.  In fine mode the loop's first pass raises at
\* restricted_gt_df = gt_df[columns] (parse_ground_truth's result was bound
\* to gf_df), before min_threshold is read.  Only an empty taxonomy lets
\* evaluate return: an empty dictionary.
EvaluateWith(min_threshold, ids, m, pdf) ==
    IF m = "coarse"
    THEN (IF ids = <<>>
          THEN [kind |-> "error", exc |-> "NameError", line |-> 485,
                df_dict |-> <<>>, restricted_pred_df |-> Restrict(pdf, <<>>)]
          ELSE [kind |-> "error", exc |-> "TypeError", line |-> 466,
                df_dict |-> <<>>, restricted_pred_df |-> Restrict(pdf, <<>>)])
    ELSE IF ids = <<>>
    THEN [kind |-> "ok", exc |-> "", line |-> 334, df_dict |-> <<>>,
          restricted_pred_df |-> Restrict(pdf, <<>>)]
    ELSE [kind |-> "error", exc |-> "NameError", line |-> 250, df_dict |-> <<>>,
          restricted_pred_df |-> Restrict(pdf, Columns(pdf, ids[1]))]

evaluate(ids, m, pdf) == EvaluateWith(MinThreshold, ids, m, pdf)

(***************************************************************************)
(* The arguments drawn.                                                    *)
(***************************************************************************)
\* the (TP, FP, FN) of one row of a curve
CountRows == {r \in [TP : 0..MaxCount, FP : 0..MaxCount, FN : 0..MaxCount] :
                r.TP + r.FP + r.FN <= MaxCount}

\* the thresholds of a curve of n rows: np.unique leaves them increasing
CurveThresholds(n) == [i \in 1..n |-> MinThreshold + i - 1]

\* the table evaluate's column arithmetic makes of the rows' counts
CurveOf(rows) ==
    EvalDf(CurveThresholds(Len(rows)), [i \in 1..Len(rows) |-> rows[i].TP],
           [i \in 1..Len(rows) |-> rows[i].FP], [i \in 1..Len(rows) |-> rows[i].FN])

\* the dictionary of Len(lens) curves, curve c holding the next lens[c] rows
\* of flat
DictOf(lens, flat) ==
    [c \in 1..Len(lens) |->
        CurveOf(SubSeq(flat, SumSeq(SubSeq(lens, 1, c - 1)) + 1,
                       SumSeq(SubSeq(lens, 1, c))))]

\* the prediction table of N samples for the categories ids, its scores
\* taken column by column from flat
PredDf(ids, N, flat) ==
    LET cols == FineColumns(ids)
        scored == 1..(Len(cols) - 1)
    IN  [columns |-> cols,
         values |-> [col \in {cols[i] : i \in scored} |->
            LET i == CHOOSE j \in scored : cols[j] = col
            IN  SubSeq(flat, (i - 1) * N + 1, i * N)]]

Range(n) == [i \in 1..n |-> i]

(***************************************************************************)
(* The state machine: one call of one function of the module, and the      *)
(* aggregators called on what evaluate returned.                           *)
(***************************************************************************)
NoRet == [kind |-> "none"]
NoPredDf == [columns |-> <<>>, values |-> <<>>]

Init ==
    /\ fn = "none"
    /\ Y_true = <<>> /\ Y_pred = <<>>
    /\ is_true_incomplete = <<>> /\ is_pred_incomplete = <<>>
    /\ y_true = <<>> /\ y_pred = <<>>
    /\ df_dict = <<>> /\ return_df = FALSE
    /\ coarse_ids = <<>> /\ mode = "none" /\ pred_df = NoPredDf /\ gt_csv = <<>>
    /\ ret = NoRet

ConfusionMatrixFine ==
    /\ fn = "none"
    /\ \E Nt \in 0..MaxN, Np \in 0..MaxN, Nti \in 0..MaxN, Npi \in 0..MaxN,
          K \in 0..MaxK :
        /\ Nt * K <= MaxCells /\ Np * K <= MaxCells
        /\ \E Yt \in BoolMat(Nt, K), Yp \in BoolMat(Np, K),
              ti \in BoolVec(Nti), pi \in BoolVec(Npi) :
            /\ Y_true' = Yt /\ Y_pred' = Yp
            /\ is_true_incomplete' = ti /\ is_pred_incomplete' = pi
            /\ ret' = confusion_matrix_fine(Yt, Yp, ti, pi)
    /\ fn' = "confusion_matrix_fine"
    /\ UNCHANGED <<y_true, y_pred, df_dict, return_df, coarse_ids, mode,
                   pred_df, gt_csv>>

ConfusionMatrixCoarse ==
    /\ fn = "none"
    /\ \E N \in 0..MaxN :
        \E yt \in BoolVec(N), yp \in BoolVec(N) :
            /\ y_true' = yt /\ y_pred' = yp
            /\ ret' = confusion_matrix_coarse(yt, yp)
    /\ fn' = "confusion_matrix_coarse"
    /\ UNCHANGED <<Y_true, Y_pred, is_true_incomplete, is_pred_incomplete,
                   df_dict, return_df, coarse_ids, mode, pred_df, gt_csv>>

Evaluate ==
    /\ fn = "none"
    /\ \E C \in 0..MaxCat, N \in 0..MaxN, m \in {"fine", "coarse"} :
        /\ 2 * C * N <= MaxCells
        /\ \E scores \in [1..(2 * C * N) -> ScoreValues],
              truths \in [1..(2 * C * N) -> BOOLEAN] :
            /\ coarse_ids' = Range(C) /\ mode' = m
            /\ pred_df' = PredDf(Range(C), N, scores)
            /\ gt_csv' = truths
            /\ ret' = evaluate(Range(C), m, PredDf(Range(C), N, scores))
    /\ fn' = "evaluate"
    /\ UNCHANGED <<Y_true, Y_pred, is_true_incomplete, is_pred_incomplete,
                   y_true, y_pred, df_dict, return_df>>

\* d is a dictionary of curves a caller may hold
CallerDict(d) ==
    \E C \in 0..MaxCat :
        \E lens \in [1..C -> 0..MaxRowsTotal] :
            /\ SumSeq(lens) <= MaxRowsTotal
            /\ \E flat \in [1..SumSeq(lens) -> CountRows] : d = DictOf(lens, flat)

MacroAveragedAuprc ==
    /\ \/ /\ fn = "none"
          /\ CallerDict(df_dict')
       \/ /\ fn = "evaluate" /\ ret.kind = "ok"
          /\ df_dict' = ret.df_dict
    /\ ret' = macro_averaged_auprc(df_dict')
    /\ fn' = "macro_averaged_auprc"
    /\ UNCHANGED <<Y_true, Y_pred, is_true_incomplete, is_pred_incomplete,
                   y_true, y_pred, return_df, coarse_ids, mode, pred_df, gt_csv>>

MicroAveragedAuprc ==
    /\ \/ /\ fn = "none"
          /\ CallerDict(df_dict')
       \/ /\ fn = "evaluate" /\ ret.kind = "ok"
          /\ df_dict' = ret.df_dict
    /\ \E rdf \in BOOLEAN :
        /\ return_df' = rdf
        /\ ret' = micro_averaged_auprc(df_dict', rdf)
    /\ fn' = "micro_averaged_auprc"
    /\ UNCHANGED <<Y_true, Y_pred, is_true_incomplete, is_pred_incomplete,
                   y_true, y_pred, coarse_ids, mode, pred_df, gt_csv>>

Next ==
    \/ ConfusionMatrixFine
    \/ ConfusionMatrixCoarse
    \/ Evaluate
    \/ MacroAveragedAuprc
    \/ MicroAveragedAuprc

Spec == Init /\ [][Next]_vars

(***************************************************************************)
(* What the claims speak of.                                               *)
(***************************************************************************)
Samples == 1..Len(Y_pred)
\* the four arguments of confusion_matrix_fine are of one sample count
SampleCountsAgree ==
    /\ Len(Y_true) = Len(Y_pred)
    /\ Len(is_true_incomplete) = Len(Y_pred)
    /\ Len(is_pred_incomplete) = Len(Y_pred)
Tags(n) == 1..Len(Y_pred[n])
NoneIncomplete ==
    /\ \A n \in 1..Len(is_true_incomplete) : ~is_true_incomplete[n]
    /\ \A n \in 1..Len(is_pred_incomplete) : ~is_pred_incomplete[n]

\* column k of a matrix
ColumnOf(M, k) == [n \in 1..Len(M) |-> M[n][k]]

\* confusion_matrix_coarse applied to the columns 1..k of two matrices, the
\* results summed; an error if one of the calls raises
RECURSIVE CoarseOverColumns(_, _, _)
CoarseOverColumns(Yt, Yp, k) ==
    IF k = 0 THEN [kind |-> "ok", TP |-> 0, FP |-> 0, FN |-> 0]
    ELSE LET before == CoarseOverColumns(Yt, Yp, k - 1)
             col == confusion_matrix_coarse(ColumnOf(Yt, k), ColumnOf(Yp, k))
         IN  IF before.kind = "error" \/ col.kind = "error"
             THEN [kind |-> "error", TP |-> 0, FP |-> 0, FN |-> 0]
             ELSE [kind |-> "ok", TP |-> before.TP + col.TP,
                   FP |-> before.FP + col.FP, FN |-> before.FN + col.FN]

\* C1: with no incomplete tag in the ground truth or in the prediction,
\* confusion_matrix_fine returns the (TP, FP, FN) that confusion_matrix_coarse
\* returns for the K columns, summed.
C1_FineIsCoarseSummedOverColumns ==
    (fn = "confusion_matrix_fine" /\ SampleCountsAgree /\ NoneIncomplete
        /\ Len(Y_pred) > 0) =>
        LET sum == CoarseOverColumns(Y_true, Y_pred, Len(Y_pred[1]))
        IN  /\ sum.kind = "ok"
            /\ ret.TP = sum.TP /\ ret.FP = sum.FP /\ ret.FN = sum.FN

\* C2: for every two Boolean vectors of the same length, all-false, all-true
\* and empty ones included, confusion_matrix_coarse returns the number of
\* samples true and predicted (TP), not true and predicted (FP), true and
\* not predicted (FN).
C2_CoarseCountsEveryInput ==
    fn = "confusion_matrix_coarse" =>
        /\ ret.kind = "ok"
        /\ ret.TP = Cardinality({n \in 1..Len(y_true) : y_true[n] /\ y_pred[n]})
        /\ ret.FP = Cardinality({n \in 1..Len(y_true) : ~y_true[n] /\ y_pred[n]})
        /\ ret.FN = Cardinality({n \in 1..Len(y_true) : y_true[n] /\ ~y_pred[n]})

\* the (sample, tag) pairs of the samples whose ground truth is complete
CompletePairs ==
    UNION {{<<n, k>> : k \in Tags(n)} : n \in {m \in Samples : ~is_true_incomplete[m]}}
AnyPredicted(n) == (\E k \in Tags(n) : Y_pred[n][k]) \/ is_pred_incomplete[n]

\* C3: to the counts of the complete tags (over the samples of complete
\* ground truth) confusion_matrix_fine adds, per sample and whatever
\* Y_true holds: one TP if the ground truth is incomplete and any tag or the
\* incomplete tag is predicted, one FN if it is incomplete and nothing is
\* predicted, one FP if it is complete and the incomplete tag is predicted.
C3_IncompleteRegimeAddsPerSample ==
    (fn = "confusion_matrix_fine" /\ SampleCountsAgree) =>
        /\ ret.kind = "ok"
        /\ ret.TP =
              Cardinality({p \in CompletePairs : Y_true[p[1]][p[2]] /\ Y_pred[p[1]][p[2]]})
            + Cardinality({n \in Samples : is_true_incomplete[n] /\ AnyPredicted(n)})
        /\ ret.FN =
              Cardinality({p \in CompletePairs : Y_true[p[1]][p[2]] /\ ~Y_pred[p[1]][p[2]]})
            + Cardinality({n \in Samples : is_true_incomplete[n] /\ ~AnyPredicted(n)})
        /\ ret.FP =
              Cardinality({p \in CompletePairs : ~Y_true[p[1]][p[2]] /\ Y_pred[p[1]][p[2]]})
            + Cardinality({n \in Samples : ~is_true_incomplete[n] /\ is_pred_incomplete[n]})

\* C3's case: a sample of complete ground truth with a false alarm on a
\* complete tag and on the incomplete tag, beside a sample of incomplete
\* ground truth for which a tag is predicted.
C3_Witness ==
    /\ fn = "confusion_matrix_fine" /\ SampleCountsAgree
    /\ \E n \in Samples :
        /\ ~is_true_incomplete[n] /\ is_pred_incomplete[n]
        /\ \E k \in Tags(n) : Y_pred[n][k] /\ ~Y_true[n][k]
    /\ \E n \in Samples :
        /\ is_true_incomplete[n] /\ ~is_pred_incomplete[n]
        /\ \E k \in Tags(n) : Y_pred[n][k] /\ Y_true[n][k]
    /\ ret.FP >= 2 /\ ret.TP = 1

\* twice max(a, 0.5), for an integer a
TwiceFloored(a) == IF 2 * a > 1 THEN 2 * a ELSE 1
InUnit(x) == IsNum(x) /\ 0 <= x.n /\ x.n <= x.d

\* row i of a table: P = TP / max(TP + FP, 0.5) and R = TP / max(TP + FN, 0.5)
\* in [0, 1], F = 1 / (1/P + 1/R) in [0, 1], and F = 0 exactly when TP = 0
RowScoresRight(df, i) ==
    /\ InUnit(df.P[i]) /\ InUnit(df.R[i]) /\ InUnit(df.F[i])
    /\ df.P[i].n * TwiceFloored(df.TP[i] + df.FP[i]) = 2 * df.TP[i] * df.P[i].d
    /\ df.R[i].n * TwiceFloored(df.TP[i] + df.FN[i]) = 2 * df.TP[i] * df.R[i].d
    /\ (df.F[i].n = 0) <=> (df.TP[i] = 0)
    /\ df.TP[i] > 0 =>
        df.F[i].n * (df.P[i].d * df.R[i].n + df.R[i].d * df.P[i].n)
            = df.F[i].d * df.P[i].n * df.R[i].n

\* C4: every row of a category's curve and of the pooled curve that
\* micro_averaged_auprc returns has its precision, recall and F in [0, 1],
\* as the formulas give them, with F = 0 exactly when TP = 0.
C4_RowScoresInUnitInterval ==
    /\ fn \in {"macro_averaged_auprc", "micro_averaged_auprc"} =>
        \A c \in 1..Len(df_dict) : \A i \in 1..Len(df_dict[c].TP) :
            RowScoresRight(df_dict[c], i)
    /\ (fn = "micro_averaged_auprc" /\ ret.kind = "ok" /\ ret.has_df) =>
        \A i \in 1..Len(ret.eval_df.TP) : RowScoresRight(ret.eval_df, i)

\* C4's case: a curve with a row of TP = FP = 0, where the floor acts, and a
\* row of a precision strictly between 0 and 1.
C4_Witness ==
    /\ fn = "macro_averaged_auprc"
    /\ \E c \in 1..Len(df_dict) : \E i \in 1..Len(df_dict[c].TP) :
        df_dict[c].TP[i] = 0 /\ df_dict[c].FP[i] = 0 /\ df_dict[c].F[i] = Zero
    /\ \E c \in 1..Len(df_dict) : \E i \in 1..Len(df_dict[c].TP) :
        df_dict[c].TP[i] > 0 /\ df_dict[c].FP[i] > 0 /\ df_dict[c].F[i] # Zero

\* the scores of one column above a threshold
Above(scores, tau) == [n \in 1..Len(scores) |-> scores[n] > tau]
\* the ground truth table, laid out as the prediction table
GtDf == PredDf(coarse_ids, IF coarse_ids = <<>> THEN 0
                           ELSE Len(gt_csv) \div (2 * Len(coarse_ids)), gt_csv)
\* the fine counts of category c with the scores binarized by score > tau
FineCountsAt(c, tau) ==
    LET tag == pred_df.values[FineTag(c)]
        inc == pred_df.values[IncompleteTag(c)]
    IN  confusion_matrix_fine(
            [n \in 1..Len(tag) |-> <<GtDf.values[FineTag(c)][n]>>],
            [n \in 1..Len(tag) |-> <<tag[n] > tau>>],
            GtDf.values[IncompleteTag(c)], Above(inc, tau))
SeqRange(q) == {q[i] : i \in 1..Len(q)}

\* C5: the curve evaluate returns for a category has one row per candidate
\* threshold, the thresholds strictly decreasing down the rows, and in each
\* row the counts of the scores binarized with score > tau for that row's tau.
C5_CurveRowsAlignedDecreasing ==
    fn = "evaluate" =>
        /\ ret.kind = "ok"
        /\ Len(ret.df_dict) = Len(coarse_ids)
        /\ \A c \in 1..Len(coarse_ids) :
            LET df == ret.df_dict[c]
            IN  /\ \A i \in 1..(Len(df.threshold) - 1) :
                    df.threshold[i] > df.threshold[i + 1]
                /\ {x \in SeqRange(pred_df.values[FineTag(c)]) : x >= MinThreshold}
                        \subseteq SeqRange(df.threshold)
                /\ mode = "fine" => \A i \in 1..Len(df.threshold) :
                    LET counts == FineCountsAt(c, df.threshold[i])
                    IN  /\ df.TP[i] = counts.TP
                        /\ df.FP[i] = counts.FP
                        /\ df.FN[i] = counts.FN

\* C6: the thresholds evaluate sweeps for a category are the distinct
\* scores, at least min_threshold, of the category's tags and, in fine mode,
\* of its incomplete tag.
C6_ThresholdsAreScoresAboveMinimum ==
    fn = "evaluate" =>
        /\ ret.kind = "ok"
        /\ Len(ret.df_dict) = Len(coarse_ids)
        /\ \A c \in 1..Len(coarse_ids) :
            SeqRange(ret.df_dict[c].threshold) =
                {x \in SeqRange(pred_df.values[FineTag(c)])
                        \cup (IF mode = "fine"
                              THEN SeqRange(pred_df.values[IncompleteTag(c)])
                              ELSE {}) : x >= MinThreshold}

\* the sum, over the categories whose curve has a row at threshold tau, of
\* that row's entry in a column of counts
RECURSIVE PooledAt(_, _, _, _)
PooledAt(d, col, tau, c) ==
    IF c = 0 THEN 0
    ELSE PooledAt(d, col, tau, c - 1)
         + SumSeq([i \in 1..Len(d[c].threshold) |->
                    IF d[c].threshold[i] = tau
                    THEN (CASE col = "TP" -> d[c].TP[i] [] col = "FP" -> d[c].FP[i]
                            [] col = "FN" -> d[c].FN[i])
                    ELSE 0])

\* C7: micro_averaged_auprc works on the union of the categories'
\* thresholds, and at each of them its pooled TP, FP and FN are the sums of
\* the categories' TP, FP and FN, three columns kept apart.
C7_MicroPoolsCountsOverUnion ==
    fn = "micro_averaged_auprc" =>
        /\ ret.kind = "ok"
        /\ ret.has_df =>
            /\ SeqRange(ret.eval_df.threshold) =
                    UNION {SeqRange(df_dict[c].threshold) : c \in 1..Len(df_dict)}
            /\ \A i \in 1..Len(ret.eval_df.threshold) :
                LET tau == ret.eval_df.threshold[i]
                IN  /\ ret.eval_df.TP[i] = PooledAt(df_dict, "TP", tau, Len(df_dict))
                    /\ ret.eval_df.FP[i] = PooledAt(df_dict, "FP", tau, Len(df_dict))
                    /\ ret.eval_df.FN[i] = PooledAt(df_dict, "FN", tau, Len(df_dict))

\* the area between the recall axis and the polyline that runs from (1, 0)
\* through a curve's (recall, precision) points, in row order, to (0, 1)
RECURSIVE AreaFrom(_, _, _, _)
AreaFrom(df, i, r, p) ==
    IF i > Len(df.R) THEN FMul(FMul(FAdd(p, One), Mu), r)
    ELSE FAdd(FMul(FMul(FAdd(p, df.P[i]), Mu), FSub(r, df.R[i])),
              AreaFrom(df, i + 1, df.R[i], df.P[i]))
AreaOfCurve(df) == AreaFrom(df, 1, One, Zero)

RECURSIVE AreasSummed(_, _)
AreasSummed(d, c) ==
    IF c = 0 THEN Zero ELSE FAdd(AreasSummed(d, c - 1), AreaOfCurve(d[c]))

RecallRises(df) ==
    \E i \in 1..(Len(df.R) - 1) : FLt(df.R[i], df.R[i + 1])

LoweredThresholds == {0, 1, 5}

\* the two averages over what evaluate returned
Averages(r) ==
    IF r.kind = "ok"
    THEN [macro |-> macro_averaged_auprc(r.df_dict),
          micro |-> micro_averaged_auprc(r.df_dict, FALSE)]
    ELSE [macro |-> [kind |-> "error", auprc |-> NaN],
          micro |-> [kind |-> "error", auprc |-> NaN]]

\* C9: with min_threshold lowered from 0.01 towards 0, the macro- and
\* micro-averaged AUPRC of an evaluation are the values they are with 0.01.
C9_LoweredMinimumKeepsAuprc ==
    fn = "evaluate" =>
        \A lower \in LoweredThresholds :
            LET at == Averages(EvaluateWith(MinThreshold, coarse_ids, mode, pred_df))
                below == Averages(EvaluateWith(lower, coarse_ids, mode, pred_df))
            IN  /\ at.macro.kind = "ok" /\ IsNum(at.macro.auprc)
                /\ at.micro.kind = "ok" /\ IsNum(at.micro.auprc)
                /\ below.macro.kind = "ok" /\ below.macro.auprc = at.macro.auprc
                /\ below.micro.kind = "ok" /\ below.micro.auprc = at.micro.auprc

\* C10: on an empty dictionary of curves macro_averaged_auprc and
\* micro_averaged_auprc fail with a NoCategories error; neither returns a
\* number or nan.
C10_EmptyDictionaryFails ==
    (fn \in {"macro_averaged_auprc", "micro_averaged_auprc"} /\ df_dict = <<>>) =>
        ret.kind = "error" /\ ret.exc = "NoCategories"

\* a category's curve with no row
IsEmptyCurve(df) == df.threshold = <<>>
\* the curve of the single row TP = FP = FN = 0
ZeroRowCurve == CurveOf(<<[TP |-> 0, FP |-> 0, FN |-> 0]>>)
\* a dictionary with every curve of no row replaced by the all-zero row
WithZeroRows(d) ==
    [c \in 1..Len(d) |-> IF IsEmptyCurve(d[c]) THEN ZeroRowCurve ELSE d[c]]

\* C11: a category whose curve has no row does not make the aggregators
\* fail and counts as the single row TP = FP = FN = 0: macro_averaged_auprc
\* returns the mean of the areas with that category's area the area of
\* (1,0),(0,0),(0,1), and micro_averaged_auprc returns.
C11_EmptyCurveIsZeroRow ==
    (/\ fn \in {"macro_averaged_auprc", "micro_averaged_auprc"}
     /\ \E c \in 1..Len(df_dict) : IsEmptyCurve(df_dict[c])
     /\ \A c \in 1..Len(df_dict) : ~RecallRises(df_dict[c])) =>
        /\ ret.kind = "ok"
        /\ fn = "macro_averaged_auprc" =>
            FMul(ret.auprc, Num(Len(df_dict), 1))
                = AreasSummed(WithZeroRows(df_dict), Len(df_dict))

\* C12: confusion_matrix_fine raises, and returns no counts, whenever its
\* four arguments are not all of one sample count: Y_true and Y_pred of
\* different numbers of rows, or is_true_incomplete or is_pred_incomplete of
\* a length that is not the number of rows (a length of 1 included).  The
\* ValueError numpy raises for shapes that do not fit is taken for the
\* ShapeMismatch error.
C12_MismatchedSampleCountsFail ==
    (fn = "confusion_matrix_fine" /\ ~SampleCountsAgree) => ret.kind = "error"

\* C13: when micro_averaged_auprc returns, it returns the pair of the AUPRC
\* and the pooled table with its F column exactly when return_df is True,
\* and the AUPRC alone when return_df is False.
C13_ReturnDfSelectsThePair ==
    (fn = "micro_averaged_auprc" /\ ret.kind = "ok") =>
        /\ ret.has_df <=> return_df
        /\ ret.has_df => Len(ret.eval_df.F) = Len(ret.eval_df.P)

\* down the rows of a curve (highest threshold first): TP never decreases,
\* TP + FN stays what it is in the first row, recall never decreases, and the
\* first row has TP = 0 and FP = 0
SweepMonotone(df) ==
    /\ \A i \in 1..(Len(df.TP) - 1) :
        /\ df.TP[i] <= df.TP[i + 1]
        /\ df.TP[i] + df.FN[i] = df.TP[i + 1] + df.FN[i + 1]
        /\ FLe(df.R[i], df.R[i + 1])
    /\ Len(df.TP) > 0 => (df.TP[1] = 0 /\ df.FP[1] = 0)

\* C14: the sweep of evaluate, in fine mode and in coarse mode, gives every
\* category a curve down whose rows TP never decreases, TP + FN is constant
\* and recall never decreases, starting from a row of TP = 0 and FP = 0.
C14_SweepIsMonotone ==
    (fn = "evaluate" /\ coarse_ids # <<>>) =>
        /\ ret.kind = "ok"
        /\ Len(ret.df_dict) = Len(coarse_ids)
        /\ \A c \in 1..Len(coarse_ids) : SweepMonotone(ret.df_dict[c])

====
